---- MODULE Spec2Model ----
(***************************************************************************)
(* A model of src/src/callouts.ts: the CalloutCollection cache, its four   *)
(* source registries (Builtin, Theme, Snippets, Custom), the shared diff   *)
(* utility and the source key codec.                                       *)
(*                                                                         *)
(* Conventions.                                                            *)
(*  - A nullable JavaScript value is a sequence of length 0 (null or       *)
(*    undefined) or 1 (the value).                                         *)
(*  - A JavaScript Set is the sequence of its elements, and a Map the      *)
(*    sequence of its entries [key, value], in insertion order: the order  *)
(*    in which the code iterates them and Array.from lists them.           *)
(*  - A CachedCallout object is identified by its id: the table holds at   *)
(*    most one object per id, and an object leaves the invalidated set     *)
(*    when it leaves the table.                                            *)
(*  - call, ret, reports and resolverCalls record what the last operation  *)
(*    was, how it ended, and the invalidateSource and resolver calls it    *)
(*    made; the properties are stated over them.                           *)
(***************************************************************************)
EXTENDS Integers, Sequences, FiniteSets, TLC

\* ---------------------------------------------------------------------
\* Bounds and input domains
\* ---------------------------------------------------------------------

\* Cap on invalidationCount (the number of processed diff batches).
MaxCount == 2

\* Largest number of arguments given to Custom.add / Custom.delete.
MaxArgs == 2

\* Callout ids the registries are fed.
Names == {"note", "tip"}

\* The one callout id of the specifications that feed a registry a single id.
OneName == {"note"}

\* The arrays of callout ids given to Builtin.set, Theme.set and Snippets.set
\* by the specifications that feed a registry a single id: none, the id, the
\* id twice.
OneNameArrays == {<<>>, <<"note">>, <<"note", "note">>}

\* The arrays given to Snippets.set by the specification that feeds the
\* Snippets registry two snippet ids.
SnippetArrays == {<<>>, <<"tip">>, <<"tip", "note">>}

\* The arrays of callout ids given to the registries that are fed two ids
\* before the cache is built, and the added, removed and changed lists of the
\* batches given to invalidateSource.
NameArrays == {<<>>, <<"note">>, <<"tip", "note">>}

\* Theme ids given to Theme.set.
ThemeIds == {"t1", "t2"}

\* Snippet ids given to Snippets.set / Snippets.delete.
SnippetIds == {"s1"}

\* Snippet ids of the specification that feeds the Snippets registry alone.
TwoSnippetIds == {"s1", "s2"}

\* The answers the Resolver can give for a callout (its intrinsic properties).
Props == {"p1", "p2"}

\* The Resolver throwing instead of answering.
Fail == "fail"

ResolverOutcomes == Props \cup {Fail}

\* ---------------------------------------------------------------------
\* JavaScript helpers
\* ---------------------------------------------------------------------

Null == <<>>

Some(v) == <<v>>

\* String.prototype.startsWith
startsWith(s, p) == Len(s) >= Len(p) /\ SubSeq(s, 1, Len(p)) = p

\* String.prototype.substring(n)
substring(s, n) == SubSeq(s, n + 1, Len(s))

\* The elements of an array.
SeqToSet(q) == {q[i] : i \in 1..Len(q)}

\* Set.prototype.has.  A JavaScript Set is the sequence of its elements in
\* the order they were added.
SetHas(set, x) == \E i \in 1..Len(set) : set[i] = x

\* Set.prototype.add: a new element goes to the end, one the Set has keeps
\* its place.
SetAdd(set, x) == IF SetHas(set, x) THEN set ELSE Append(set, x)

\* Set.prototype.delete
SetDelete(set, x) ==
    LET other(y) == y # x IN SelectSeq(set, other)

\* new Set(array): the elements of the array in the order of their first
\* occurrence.
RECURSIVE NewSet(_)
NewSet(array) ==
    IF array = <<>> THEN <<>>
    ELSE SetAdd(NewSet(SubSeq(array, 1, Len(array) - 1)), array[Len(array)])

\* Map.prototype.has.  A JavaScript Map is the sequence of its entries
\* [key, value] in the order their keys were first set.
MapHas(m, k) == \E i \in 1..Len(m) : m[i].key = k

\* Map.prototype.get for a key the Map has.
MapGet(m, k) == m[CHOOSE i \in 1..Len(m) : m[i].key = k].value

\* Array.from(map.keys())
MapKeys(m) == [i \in 1..Len(m) |-> m[i].key]

\* Arrays over S of length lo..hi.
SeqsUpTo(S, lo, hi) == UNION {[1..k -> S] : k \in lo..hi}

\* Map.prototype.delete
MapDelete(m, k) ==
    LET other(e) == e.key # k IN SelectSeq(m, other)

\* Map.prototype.set: a new key goes to the end, one the Map has keeps its
\* place.
MapSet(m, k, v) ==
    IF MapHas(m, k)
    THEN [i \in 1..Len(m) |-> IF m[i].key = k THEN [key |-> k, value |-> v] ELSE m[i]]
    ELSE Append(m, [key |-> k, value |-> v])

\* new Map()
EmptyMap == <<>>

\* ---------------------------------------------------------------------
\* Source key codec
\* ---------------------------------------------------------------------

BuiltinSource == [type |-> "builtin"]

CustomSource == [type |-> "custom"]

SnippetSource(s) == [type |-> "snippet", snippet |-> s]

ThemeSource(t) == [type |-> "theme", theme |-> t]

sourceToKey(source) ==
    CASE source.type = "builtin" -> "builtin"
      [] source.type = "snippet" -> "snippet:" \o source.snippet
      [] source.type = "theme" -> "theme:" \o source.theme
      [] source.type = "custom" -> "custom"

\* The Error sourceFromKey throws.
UnknownSourceKey(sourceKey) ==
    [type |-> "Error", message |-> "Unknown source key: " \o sourceKey]

\* A decoder that takes the sub-id to end at the next colon.
sourceFromKey_SplitOnColon(sourceKey) ==
    LET cut(s) == IF \E i \in 1..Len(s) : SubSeq(s, i, i) = ":"
                  THEN SubSeq(s, 1, (CHOOSE i \in 1..Len(s) :
                            /\ SubSeq(s, i, i) = ":"
                            /\ \A j \in 1..(i - 1) : SubSeq(s, j, j) # ":") - 1)
                  ELSE s
    IN IF sourceKey = "builtin" THEN BuiltinSource
       ELSE IF sourceKey = "custom" THEN CustomSource
       ELSE IF startsWith(sourceKey, "snippet:")
            THEN SnippetSource(cut(substring(sourceKey, Len("snippet:"))))
       ELSE IF startsWith(sourceKey, "theme:")
            THEN ThemeSource(cut(substring(sourceKey, Len("theme:"))))
       ELSE UnknownSourceKey(sourceKey)

\* A decoder that tests the prefixes without their colon.
sourceFromKey_PrefixWithoutColon(sourceKey) ==
    IF sourceKey = "builtin" THEN BuiltinSource
    ELSE IF sourceKey = "custom" THEN CustomSource
    ELSE IF startsWith(sourceKey, "snippet")
         THEN SnippetSource(substring(sourceKey, Len("snippet:")))
    ELSE IF startsWith(sourceKey, "theme")
         THEN ThemeSource(substring(sourceKey, Len("theme:")))
    ELSE UnknownSourceKey(sourceKey)

sourceFromKey(sourceKey) ==
    IF sourceKey = "builtin" THEN BuiltinSource
    ELSE IF sourceKey = "custom" THEN CustomSource
    ELSE IF startsWith(sourceKey, "snippet:")
         THEN SnippetSource(substring(sourceKey, Len("snippet:")))
    ELSE IF startsWith(sourceKey, "theme:")
         THEN ThemeSource(substring(sourceKey, Len("theme:")))
    ELSE UnknownSourceKey(sourceKey)

\* ---------------------------------------------------------------------
\* State
\* ---------------------------------------------------------------------

VARIABLES
    builtin,            \* CalloutCollectionObsidian.data : Set<CalloutID>
    themeData,          \* CalloutCollectionTheme.data : Set<CalloutID>
    oldTheme,           \* CalloutCollectionTheme.oldTheme : string | null
    snippets,           \* CalloutCollectionSnippets.data : Map<SnippetID, Set<CalloutID>>
    custom,             \* CalloutCollectionCustom.data : CalloutID[]
    cached,             \* CalloutCollection.cached
    cacheById,          \* CalloutCollection.cacheById : Map<CalloutID, CachedCallout>
    invalidated,        \* CalloutCollection.invalidated : Set<CachedCallout>
    invalidationCount,  \* CalloutCollection.invalidationCount
    countSnapshot,      \* the countSnapshot of the closure hasChanged() returned last
    call,               \* the last operation called, with its arguments
    ret,                \* how the last operation ended: what it returned, or that it threw
    reports,            \* the invalidateSource calls the last operation made, in order
    resolverCalls,      \* the ids the last operation called the resolver with, in order
    codecPc,            \* codec round trip: "idle", "start", "encoded" or "decoded"
    codecIn,            \* codec round trip: the two descriptors encoded
    codecKey,           \* codec round trip: their keys
    codecOut,           \* codec round trip: the keys decoded
    suggestPc,          \* onTrigger: "idle", "start" or "done"
    suggestIn,          \* onTrigger: the editor line, the cursor, the setting, the context
    suggestOut          \* onTrigger: what it returned

registryVars == <<builtin, themeData, oldTheme, snippets, custom>>

cacheVars == <<cached, cacheById, invalidated, invalidationCount>>

obsVars == <<call, ret, reports, resolverCalls>>

codecVars == <<codecPc, codecIn, codecKey, codecOut>>

suggestVars == <<suggestPc, suggestIn, suggestOut>>

vars == <<registryVars, cacheVars, countSnapshot, obsVars, codecVars, suggestVars>>

\* The cache's fields as one value, for the operators that transform them.
Cache ==
    [cached |-> cached, cacheById |-> cacheById, invalidated |-> invalidated,
     invalidationCount |-> invalidationCount]

SetCache(c) ==
    /\ cached' = c.cached
    /\ cacheById' = c.cacheById
    /\ invalidated' = c.invalidated
    /\ invalidationCount' = c.invalidationCount

\* new CachedCallout(id)
CachedCallout(id) == [id |-> id, sources |-> <<>>, callout |-> Null]

Returned(v) == [kind |-> "return", value |-> v]

Thrown == [kind |-> "throw", value |-> "resolver error"]

Void == Returned("void")

\* ---------------------------------------------------------------------
\* CalloutCollection: the cache
\* ---------------------------------------------------------------------

\* removeCalloutSource that keeps an entry whose last source went away.
removeCalloutSource_KeepEmpty(c, id, sourceKey) ==
    IF ~MapHas(c.cacheById, id) THEN c
    ELSE LET callout == MapGet(c.cacheById, id) IN
         [c EXCEPT !.cacheById =
            MapSet(@, id, [callout EXCEPT !.sources = SetDelete(@, sourceKey)])]

\* removeCalloutSource without `this.invalidated.delete(callout)`.
removeCalloutSource_KeepsInvalidated(c, id, sourceKey) ==
    IF ~MapHas(c.cacheById, id) THEN c
    ELSE LET callout == MapGet(c.cacheById, id)
             left == SetDelete(callout.sources, sourceKey)
         IN IF Len(left) = 0
            THEN [c EXCEPT !.cacheById = MapDelete(@, id)]
            ELSE [c EXCEPT !.cacheById = MapSet(@, id, [callout EXCEPT !.sources = left])]

\* removeCalloutSource that deletes the entry whatever sources it has left.
removeCalloutSource_DeletesEntry(c, id, sourceKey) ==
    IF ~MapHas(c.cacheById, id) THEN c
    ELSE [c EXCEPT !.cacheById = MapDelete(@, id),
                   !.invalidated = SetDelete(@, id)]

\* removeCalloutSource that tests for an empty sources set before it deletes
\* the key.
removeCalloutSource_TestsEmptyFirst(c, id, sourceKey) ==
    IF ~MapHas(c.cacheById, id) THEN c
    ELSE LET callout == MapGet(c.cacheById, id) IN
         IF Len(callout.sources) = 0
         THEN [c EXCEPT !.cacheById = MapDelete(@, id),
                        !.invalidated = SetDelete(@, id)]
         ELSE [c EXCEPT !.cacheById =
                  MapSet(@, id, [callout EXCEPT !.sources = SetDelete(@, sourceKey)])]

removeCalloutSource(c, id, sourceKey) ==
    IF ~MapHas(c.cacheById, id) THEN c
    ELSE LET callout == MapGet(c.cacheById, id)
             left == SetDelete(callout.sources, sourceKey)
         IN IF Len(left) = 0
            THEN [c EXCEPT !.cacheById = MapDelete(@, id),
                           !.invalidated = SetDelete(@, id)]
            ELSE [c EXCEPT !.cacheById = MapSet(@, id, [callout EXCEPT !.sources = left])]

\* addCalloutSource that marks only the entries it creates.
addCalloutSource_MarksNewOnly(c, id, sourceKey) ==
    IF MapHas(c.cacheById, id)
    THEN LET callout == MapGet(c.cacheById, id) IN
         [c EXCEPT !.cacheById =
            MapSet(@, id, [callout EXCEPT !.sources = SetAdd(@, sourceKey)])]
    ELSE [c EXCEPT !.cacheById =
                        MapSet(@, id, [CachedCallout(id) EXCEPT !.sources = <<sourceKey>>]),
                   !.invalidated = SetAdd(@, id)]

addCalloutSource(c, id, sourceKey) ==
    LET table == IF MapHas(c.cacheById, id) THEN c.cacheById
                 ELSE MapSet(c.cacheById, id, CachedCallout(id))
        callout == MapGet(table, id)
    IN [c EXCEPT !.cacheById =
                    MapSet(table, id, [callout EXCEPT !.sources = SetAdd(@, sourceKey)]),
                 !.invalidated = SetAdd(@, id)]

\* for (const removed of data.removed) this.removeCalloutSource(removed, sourceKey)
RECURSIVE removeAll(_, _, _)
removeAll(c, ids, sourceKey) ==
    IF ids = <<>> THEN c
    ELSE removeAll(removeCalloutSource(c, Head(ids), sourceKey), Tail(ids), sourceKey)

\* for (const added of data.added) this.addCalloutSource(added, sourceKey)
RECURSIVE addAll(_, _, _)
addAll(c, ids, sourceKey) ==
    IF ids = <<>> THEN c
    ELSE addAll(addCalloutSource(c, Head(ids), sourceKey), Tail(ids), sourceKey)

\* The changed loop creating an entry for a name that has none.
RECURSIVE markChanged_CreatesEntries(_, _)
markChanged_CreatesEntries(c, ids) ==
    IF ids = <<>> THEN c
    ELSE markChanged_CreatesEntries(
            IF MapHas(c.cacheById, Head(ids))
            THEN [c EXCEPT !.invalidated = SetAdd(@, Head(ids))]
            ELSE [c EXCEPT !.cacheById = MapSet(@, Head(ids), CachedCallout(Head(ids))),
                           !.invalidated = SetAdd(@, Head(ids))],
            Tail(ids))

\* for (const changed of data.changed) ... this.invalidated.add(callout)
RECURSIVE markChanged(_, _)
markChanged(c, ids) ==
    IF ids = <<>> THEN c
    ELSE markChanged(
            IF MapHas(c.cacheById, Head(ids))
            THEN [c EXCEPT !.invalidated = SetAdd(@, Head(ids))]
            ELSE c,
            Tail(ids))

\* invalidateSource that counts a batch only when it changes membership.
invalidateSource_CountsMembershipOnly(c, src, data) ==
    LET sourceKey == sourceToKey(src) IN
    IF ~c.cached THEN c
    ELSE LET c1 == removeAll(c, data.removed, sourceKey)
             c2 == addAll(c1, data.added, sourceKey)
             c3 == markChanged(c2, data.changed)
         IN IF data.removed = <<>> /\ data.added = <<>> THEN c3
            ELSE [c3 EXCEPT !.invalidationCount = @ + 1]

\* invalidateSource without the test of the cached flag.
invalidateSource_NoCachedTest(c, src, data) ==
    LET sourceKey == sourceToKey(src)
        c1 == removeAll(c, data.removed, sourceKey)
        c2 == addAll(c1, data.added, sourceKey)
        c3 == markChanged(c2, data.changed)
    IN [c3 EXCEPT !.invalidationCount = @ + 1]

\* invalidateSource that counts once for every name of the batch.
invalidateSource_CountsNames(c, src, data) ==
    LET sourceKey == sourceToKey(src) IN
    IF ~c.cached THEN c
    ELSE LET c1 == removeAll(c, data.removed, sourceKey)
             c2 == addAll(c1, data.added, sourceKey)
             c3 == markChanged(c2, data.changed)
         IN [c3 EXCEPT !.invalidationCount =
                @ + Len(data.removed) + Len(data.added) + Len(data.changed)]

\* invalidateSource that processes the added names before the removed names.
invalidateSource_AddsBeforeRemoves(c, src, data) ==
    LET sourceKey == sourceToKey(src) IN
    IF ~c.cached THEN c
    ELSE LET c1 == addAll(c, data.added, sourceKey)
             c2 == removeAll(c1, data.removed, sourceKey)
             c3 == markChanged(c2, data.changed)
         IN [c3 EXCEPT !.invalidationCount = @ + 1]

invalidateSource(c, src, data) ==
    LET sourceKey == sourceToKey(src) IN
    IF ~c.cached THEN c
    ELSE LET c1 == removeAll(c, data.removed, sourceKey)
             c2 == addAll(c1, data.added, sourceKey)
             c3 == markChanged(c2, data.changed)
         IN [c3 EXCEPT !.invalidationCount = @ + 1]

\* One invalidateSource call as a value.
Report(src, added, removed, changed) ==
    [src |-> src, data |-> [added |-> added, removed |-> removed, changed |-> changed]]

\* The cache after a registry's invalidate calls, in order.
RECURSIVE applyReports(_, _)
applyReports(c, rs) ==
    IF rs = <<>> THEN c
    ELSE applyReports(invalidateSource(c, Head(rs).src, Head(rs).data), Tail(rs))

\* buildCache: the snippet loop.
RECURSIVE addSnippets(_, _, _)
addSnippets(c, ids, data) ==
    IF ids = <<>> THEN c
    ELSE addSnippets(
            addAll(c, MapGet(data, Head(ids)), sourceToKey(SnippetSource(Head(ids)))),
            Tail(ids), data)

\* buildCache that leaves the entries it created out of the invalidated set.
buildCache_FreshEntries(c) ==
    LET c0 == [c EXCEPT !.invalidated = <<>>, !.cacheById = EmptyMap]
        c1 == addAll(c0, builtin, sourceToKey(BuiltinSource))
        c2 == IF oldTheme # Null
              THEN addAll(c1, themeData, sourceToKey(ThemeSource(oldTheme[1])))
              ELSE c1
        c3 == addSnippets(c2, MapKeys(snippets), snippets)
        c4 == addAll(c3, custom, sourceToKey(CustomSource))
    IN [c4 EXCEPT !.cached = TRUE, !.invalidated = <<>>]

buildCache(c) ==
    LET c0 == [c EXCEPT !.invalidated = <<>>, !.cacheById = EmptyMap]
        c1 == addAll(c0, builtin, sourceToKey(BuiltinSource))
        c2 == IF oldTheme # Null
              THEN addAll(c1, themeData, sourceToKey(ThemeSource(oldTheme[1])))
              ELSE c1
        c3 == addSnippets(c2, MapKeys(snippets), snippets)
        c4 == addAll(c3, custom, sourceToKey(CustomSource))
    IN [c4 EXCEPT !.cached = TRUE]

\* A read that builds the cache whether or not it is built.
ensureBuilt_EveryRead(c) == buildCache(c)

\* if (!this.cached) this.buildCache()
ensureBuilt(c) == IF c.cached THEN c ELSE buildCache(c)

\* doResolve with the resolver answering p.
doResolve(entry, p) ==
    [entry EXCEPT !.callout =
        Some([id |-> entry.id, props |-> p,
              sources |-> [i \in 1..Len(entry.sources) |-> sourceFromKey(entry.sources[i])]])]

resolveOne(c, id, p) ==
    [c EXCEPT !.cacheById = MapSet(@, id, doResolve(MapGet(@, id), p)),
              !.invalidated = SetDelete(@, id)]

\* A loop that leaves after the first entry.
resolveLoop_FirstOnly(table, order, answer, calls) ==
    IF order = <<>> THEN [table |-> table, calls |-> calls, threw |-> FALSE]
    ELSE IF answer[Head(order)] = Fail
         THEN [table |-> table, calls |-> Append(calls, Head(order)), threw |-> TRUE]
         ELSE [table |-> MapSet(table, Head(order),
                                doResolve(MapGet(table, Head(order)), answer[Head(order)])),
               calls |-> Append(calls, Head(order)), threw |-> FALSE]

\* resolveAll's loop over the invalidated set, whose iteration order is
\* `order`, with the resolver answering answer[id]; the loop ends at the
\* first id it throws on.  Gives the table, the ids the resolver was called
\* with and whether it threw.
RECURSIVE resolveLoop(_, _, _, _)
resolveLoop(table, order, answer, calls) ==
    IF order = <<>> THEN [table |-> table, calls |-> calls, threw |-> FALSE]
    ELSE IF answer[Head(order)] = Fail
         THEN [table |-> table, calls |-> Append(calls, Head(order)), threw |-> TRUE]
         ELSE resolveLoop(MapSet(table, Head(order),
                                 doResolve(MapGet(table, Head(order)), answer[Head(order)])),
                          Tail(order), answer, Append(calls, Head(order)))

\* What a read operation leaves behind besides the cache.
Observe(op, args, result, calls) ==
    /\ call' = [op |-> op, args |-> args]
    /\ ret' = result
    /\ reports' = <<>>
    /\ resolverCalls' = calls
    /\ UNCHANGED <<registryVars, countSnapshot, codecVars, suggestVars>>

\* get that answers "no callout" when the resolver throws.
Get_SwallowsFailure(id) ==
    \E answer \in ResolverOutcomes :
        LET c0 == ensureBuilt(Cache) IN
        IF ~MapHas(c0.cacheById, id)
        THEN SetCache(c0) /\ Observe("get", <<id>>, Returned(Null), <<>>)
        ELSE IF SetHas(c0.invalidated, id)
             THEN IF answer = Fail
                  THEN SetCache(c0) /\ Observe("get", <<id>>, Returned(Null), <<id>>)
                  ELSE LET c1 == resolveOne(c0, id, answer) IN
                       /\ SetCache(c1)
                       /\ Observe("get", <<id>>,
                                  Returned(MapGet(c1.cacheById, id).callout), <<id>>)
             ELSE SetCache(c0)
                  /\ Observe("get", <<id>>, Returned(MapGet(c0.cacheById, id).callout), <<>>)

\* get that takes the entry out of the invalidated set before it resolves it.
Get_FreshBeforeResolve(id) ==
    \E answer \in ResolverOutcomes :
        LET c0 == ensureBuilt(Cache) IN
        IF ~MapHas(c0.cacheById, id)
        THEN SetCache(c0) /\ Observe("get", <<id>>, Returned(Null), <<>>)
        ELSE IF SetHas(c0.invalidated, id)
             THEN IF answer = Fail
                  THEN /\ SetCache([c0 EXCEPT !.invalidated = SetDelete(@, id)])
                       /\ Observe("get", <<id>>, Thrown, <<id>>)
                  ELSE LET c1 == resolveOne(c0, id, answer) IN
                       /\ SetCache(c1)
                       /\ Observe("get", <<id>>,
                                  Returned(MapGet(c1.cacheById, id).callout), <<id>>)
             ELSE SetCache(c0)
                  /\ Observe("get", <<id>>, Returned(MapGet(c0.cacheById, id).callout), <<>>)

Get(id) ==
    \E answer \in ResolverOutcomes :
        LET c0 == ensureBuilt(Cache) IN
        IF ~MapHas(c0.cacheById, id)
        THEN SetCache(c0) /\ Observe("get", <<id>>, Returned(Null), <<>>)
        ELSE IF SetHas(c0.invalidated, id)
             THEN IF answer = Fail
                  THEN SetCache(c0) /\ Observe("get", <<id>>, Thrown, <<id>>)
                  ELSE LET c1 == resolveOne(c0, id, answer) IN
                       /\ SetCache(c1)
                       /\ Observe("get", <<id>>,
                                  Returned(MapGet(c1.cacheById, id).callout), <<id>>)
             ELSE SetCache(c0)
                  /\ Observe("get", <<id>>, Returned(MapGet(c0.cacheById, id).callout), <<>>)

\* has implemented as a get that found something.
Has_ViaGet(id) ==
    \E p \in Props :
        LET c0 == ensureBuilt(Cache) IN
        IF SetHas(c0.invalidated, id)
        THEN /\ SetCache(resolveOne(c0, id, p))
             /\ Observe("has", <<id>>, Returned(TRUE), <<id>>)
        ELSE /\ SetCache(c0)
             /\ Observe("has", <<id>>, Returned(MapHas(c0.cacheById, id)), <<>>)

Has(id) ==
    LET c0 == ensureBuilt(Cache) IN
    /\ SetCache(c0)
    /\ Observe("has", <<id>>, Returned(MapHas(c0.cacheById, id)), <<>>)

Keys ==
    LET c0 == ensureBuilt(Cache) IN
    /\ SetCache(c0)
    /\ Observe("keys", <<>>, Returned(MapKeys(c0.cacheById)), <<>>)

\* Array.from(this.cacheById.values()).map((c) => c.callout)
calloutsOf(table) == [i \in 1..Len(table) |-> table[i].value.callout]

Values ==
    LET c0 == ensureBuilt(Cache) IN
    \E answer \in [SeqToSet(c0.invalidated) -> ResolverOutcomes] :
        LET r == resolveLoop(c0.cacheById, c0.invalidated, answer, <<>>) IN
        IF r.threw
        THEN /\ SetCache([c0 EXCEPT !.cacheById = r.table])
             /\ Observe("values", <<>>, Thrown, r.calls)
        ELSE /\ SetCache([c0 EXCEPT !.cacheById = r.table, !.invalidated = <<>>])
             /\ Observe("values", <<>>, Returned(calloutsOf(r.table)), r.calls)

\* hasChanged(): takes the snapshot the returned closure compares with.
HasChanged ==
    /\ countSnapshot' = Some(invalidationCount)
    /\ call' = [op |-> "hasChanged", args |-> <<>>]
    /\ ret' = Returned("closure")
    /\ reports' = <<>>
    /\ resolverCalls' = <<>>
    /\ UNCHANGED <<registryVars, cacheVars, codecVars, suggestVars>>

\* What the closure returns when called now.
closureResult == invalidationCount # countSnapshot[1]

\* Calling the closure hasChanged() returned.
CallClosure ==
    /\ countSnapshot # Null
    /\ call' = [op |-> "closure", args |-> <<>>]
    /\ ret' = Returned(closureResult)
    /\ reports' = <<>>
    /\ resolverCalls' = <<>>
    /\ UNCHANGED <<registryVars, cacheVars, countSnapshot, codecVars, suggestVars>>

\* invalidate that counts as a change.
Invalidate_Counts(id) ==
    /\ SetCache(IF cached /\ MapHas(cacheById, id)
                THEN [Cache EXCEPT !.invalidated = SetAdd(@, id),
                                   !.invalidationCount = @ + 1]
                ELSE Cache)
    /\ Observe("invalidate", <<id>>, Void, <<>>)

Invalidate(id) ==
    /\ SetCache(IF cached /\ MapHas(cacheById, id)
                THEN [Cache EXCEPT !.invalidated = SetAdd(@, id)]
                ELSE Cache)
    /\ Observe("invalidate", <<id>>, Void, <<>>)

\* ---------------------------------------------------------------------
\* The source registries
\* ---------------------------------------------------------------------

\* diff that puts every item of `before` among the same.
diff_SameIsBefore(before, after) ==
    LET inBefore(x) == SetHas(before, x)
        inAfter(x) == SetHas(after, x)
        notInBefore(x) == ~inBefore(x)
        notInAfter(x) == ~inAfter(x)
    IN [added |-> SelectSeq(after, notInBefore),
        removed |-> SelectSeq(before, notInAfter),
        same |-> before]

\* diff: the items of `before` go to same or removed in the order `before`
\* has them, the items of `after` that `before` lacks go to added in the
\* order `after` has them.
diff(before, after) ==
    LET inBefore(x) == SetHas(before, x)
        inAfter(x) == SetHas(after, x)
        notInBefore(x) == ~inBefore(x)
        notInAfter(x) == ~inAfter(x)
    IN [added |-> SelectSeq(after, notInBefore),
        removed |-> SelectSeq(before, notInAfter),
        same |-> SelectSeq(before, inAfter)]

\* What a registry mutator leaves behind besides its own data: the cache after
\* its invalidate calls rs, and the record of the call.
Mutate(op, args, rs, result) ==
    LET c == applyReports(Cache, rs) IN
    /\ c.invalidationCount <= MaxCount
    /\ SetCache(c)
    /\ call' = [op |-> op, args |-> args]
    /\ ret' = result
    /\ reports' = rs
    /\ resolverCalls' = <<>>
    /\ UNCHANGED <<countSnapshot, codecVars, suggestVars>>

\* Builtin.set that reports no changed names.
BuiltinSet_NoChanged(callouts) ==
    LET old == builtin
        updated == NewSet(callouts)
        diffs == diff(old, updated)
    IN /\ builtin' = updated
       /\ UNCHANGED <<themeData, oldTheme, snippets, custom>>
       /\ Mutate("builtin.set", <<callouts>>,
                 <<Report(BuiltinSource, diffs.added, diffs.removed, <<>>)>>, Void)

\* CalloutCollectionObsidian.set
BuiltinSet(callouts) ==
    LET old == builtin
        updated == NewSet(callouts)
        diffs == diff(old, updated)
    IN /\ builtin' = updated
       /\ UNCHANGED <<themeData, oldTheme, snippets, custom>>
       /\ Mutate("builtin.set", <<callouts>>,
                 <<Report(BuiltinSource, diffs.added, diffs.removed, diffs.same)>>, Void)

\* The invalidate calls of CalloutCollectionTheme.set.  The field oldTheme is
\* assigned before it is compared with the argument.
themeSetReports(old, prevTheme, assignedTheme, theme, updated, callouts) ==
    IF assignedTheme = Some(theme)
    THEN LET diffs == diff(old, updated) IN
         <<Report(ThemeSource(theme), diffs.added, diffs.removed, diffs.same)>>
    ELSE <<Report(ThemeSource(IF prevTheme = Null THEN "" ELSE prevTheme[1]),
                  <<>>, old, <<>>),
           Report(ThemeSource(theme), callouts, <<>>, <<>>)>>

\* CalloutCollectionTheme.set
ThemeSet(theme, callouts) ==
    LET old == themeData
        prevTheme == oldTheme
        updated == NewSet(callouts)
        assignedTheme == Some(theme)
    IN /\ themeData' = updated
       /\ oldTheme' = assignedTheme
       /\ UNCHANGED <<builtin, snippets, custom>>
       /\ Mutate("theme.set", <<theme, callouts>>,
                 themeSetReports(old, prevTheme, assignedTheme, theme, updated, callouts),
                 Void)

\* CalloutCollectionTheme.delete
ThemeDelete ==
    LET old == themeData
        prevTheme == oldTheme
    IN /\ themeData' = <<>>
       /\ oldTheme' = Null
       /\ UNCHANGED <<builtin, snippets, custom>>
       /\ Mutate("theme.delete", <<>>,
                 <<Report(ThemeSource(IF prevTheme = Null THEN "" ELSE prevTheme[1]),
                          <<>>, old, <<>>)>>, Void)

\* CalloutCollectionSnippets.set
SnippetsSet(id, callouts) ==
    LET source == SnippetSource(id)
        updated == NewSet(callouts)
    IN /\ snippets' = MapSet(snippets, id, updated)
       /\ UNCHANGED <<builtin, themeData, oldTheme, custom>>
       /\ IF ~MapHas(snippets, id)
          THEN Mutate("snippets.set", <<id, callouts>>,
                      <<Report(source, callouts, <<>>, <<>>)>>, Void)
          ELSE LET diffs == diff(MapGet(snippets, id), updated) IN
               Mutate("snippets.set", <<id, callouts>>,
                      <<Report(source, diffs.added, diffs.removed, diffs.same)>>, Void)

\* delete that reports a batch without the snippet's names.
snippetsDeleteReports_NoNames(data, id) ==
    IF MapHas(data, id)
    THEN <<Report(SnippetSource(id), <<>>, <<>>, <<>>)>>
    ELSE <<>>

\* The invalidate calls of CalloutCollectionSnippets.delete.
snippetsDeleteReports(data, id) ==
    IF MapHas(data, id)
    THEN <<Report(SnippetSource(id), <<>>, MapGet(data, id), <<>>)>>
    ELSE <<>>

\* CalloutCollectionSnippets.delete
SnippetsDelete(id) ==
    /\ snippets' = MapDelete(snippets, id)
    /\ UNCHANGED <<builtin, themeData, oldTheme, custom>>
    /\ Mutate("snippets.delete", <<id>>, snippetsDeleteReports(snippets, id),
              Returned(MapHas(snippets, id)))

\* CalloutCollectionSnippets.clear: delete(id) for every id of
\* Array.from(this.data.keys()), in turn.
RECURSIVE snippetsClearReports(_, _)
snippetsClearReports(data, ids) ==
    IF ids = <<>> THEN <<>>
    ELSE snippetsDeleteReports(data, Head(ids))
            \o snippetsClearReports(MapDelete(data, Head(ids)), Tail(ids))

\* The Map after delete(id) for every id of ids.
RECURSIVE deleteAll(_, _)
deleteAll(data, ids) ==
    IF ids = <<>> THEN data ELSE deleteAll(MapDelete(data, Head(ids)), Tail(ids))

SnippetsClear ==
    /\ snippets' = deleteAll(snippets, MapKeys(snippets))
    /\ UNCHANGED <<builtin, themeData, oldTheme, custom>>
    /\ Mutate("snippets.clear", <<>>,
              snippetsClearReports(snippets, MapKeys(snippets)), Void)

\* The loop of add without `set.add(id)`.
RECURSIVE customAddLoop_SetNotUpdated(_, _, _, _)
customAddLoop_SetNotUpdated(data, set, ids, added) ==
    IF ids = <<>> THEN [data |-> data, added |-> added]
    ELSE IF ~SetHas(set, Head(ids))
         THEN customAddLoop_SetNotUpdated(Append(data, Head(ids)), set,
                                          Tail(ids), Append(added, Head(ids)))
         ELSE customAddLoop_SetNotUpdated(data, set, Tail(ids), added)

\* The loop of add without the test `!set.has(id)`.
RECURSIVE customAddLoop_PushesAll(_, _, _, _)
customAddLoop_PushesAll(data, set, ids, added) ==
    IF ids = <<>> THEN [data |-> data, added |-> added]
    ELSE customAddLoop_PushesAll(Append(data, Head(ids)), SetAdd(set, Head(ids)),
                                 Tail(ids), Append(added, Head(ids)))

\* CalloutCollectionCustom.add: the loop over the arguments.
RECURSIVE customAddLoop(_, _, _, _)
customAddLoop(data, set, ids, added) ==
    IF ids = <<>> THEN [data |-> data, added |-> added]
    ELSE IF ~SetHas(set, Head(ids))
         THEN customAddLoop(Append(data, Head(ids)), SetAdd(set, Head(ids)),
                            Tail(ids), Append(added, Head(ids)))
         ELSE customAddLoop(data, set, Tail(ids), added)

CustomAdd(ids) ==
    LET r == customAddLoop(custom, NewSet(custom), ids, <<>>) IN
    /\ custom' = r.data
    /\ UNCHANGED <<builtin, themeData, oldTheme, snippets>>
    /\ Mutate("custom.add", ids,
              IF Len(r.added) > 0
              THEN <<Report(CustomSource, r.added, <<>>, <<>>)>>
              ELSE <<>>, Void)

\* Array.prototype.findIndex with an equality test: the 0-based index of the
\* first match, -1 when there is none.
findIndex(data, id) ==
    IF \E i \in 1..Len(data) : data[i] = id
    THEN (CHOOSE i \in 1..Len(data) :
            /\ data[i] = id
            /\ \A j \in 1..(i - 1) : data[j] # id) - 1
    ELSE -1

\* Array.prototype.splice(index, 1): the array afterwards.  A negative index
\* counts from the end.
splice1(data, index) ==
    LET len == Len(data)
        start == IF index < 0
                 THEN (IF len + index < 0 THEN 0 ELSE len + index)
                 ELSE (IF index > len THEN len ELSE index)
    IN IF start >= len THEN data
       ELSE SubSeq(data, 1, start) \o SubSeq(data, start + 2, len)

\* CalloutCollectionCustom.delete: the loop over the arguments.  findIndex
\* gives a number, so the test `index !== undefined` passes for every id.
RECURSIVE customDeleteLoop(_, _, _)
customDeleteLoop(data, ids, removed) ==
    IF ids = <<>> THEN [data |-> data, removed |-> removed]
    ELSE LET index == findIndex(data, Head(ids))
             indexIsNotUndefined == index \in Int
         IN IF indexIsNotUndefined
            THEN customDeleteLoop(splice1(data, index), Tail(ids),
                                  Append(removed, Head(ids)))
            ELSE customDeleteLoop(data, Tail(ids), removed)

CustomDelete(ids) ==
    LET r == customDeleteLoop(custom, ids, <<>>) IN
    /\ custom' = r.data
    /\ UNCHANGED <<builtin, themeData, oldTheme, snippets>>
    /\ Mutate("custom.delete", ids,
              IF Len(r.removed) > 0
              THEN <<Report(CustomSource, <<>>, r.removed, <<>>)>>
              ELSE <<>>, Void)

CustomClear ==
    LET removed == custom IN
    /\ custom' = <<>>
    /\ UNCHANGED <<builtin, themeData, oldTheme, snippets>>
    /\ Mutate("custom.clear", <<>>, <<Report(CustomSource, <<>>, removed, <<>>)>>, Void)

\* ---------------------------------------------------------------------
\* The specification of the collection
\* ---------------------------------------------------------------------

Init ==
    /\ builtin = <<>>
    /\ themeData = <<>>
    /\ oldTheme = Some("")
    /\ snippets = EmptyMap
    /\ custom = <<>>
    /\ cached = FALSE
    /\ cacheById = EmptyMap
    /\ invalidated = <<>>
    /\ invalidationCount = 0
    /\ countSnapshot = Null
    /\ call = [op |-> "constructor", args |-> <<>>]
    /\ ret = Void
    /\ reports = <<>>
    /\ resolverCalls = <<>>
    /\ codecPc = "idle"
    /\ codecIn = <<>>
    /\ codecKey = <<>>
    /\ codecOut = <<>>
    /\ suggestPc = "idle"
    /\ suggestIn = <<>>
    /\ suggestOut = <<>>

\* Each specification is Init with a choice of operations and of the ids they
\* are given, so that each stays small enough to explore completely.

\* The collection fed by the Builtin registry (one callout id) and the Custom
\* registry (every callout id).
NextCustom ==
    \/ \E id \in Names : Get(id)
    \/ \E id \in Names : Has(id)
    \/ Keys
    \/ Values
    \/ \E id \in Names : Invalidate(id)
    \/ \E callouts \in {<<>>, <<"note">>} : BuiltinSet(callouts)
    \/ \E ids \in SeqsUpTo(Names, 0, MaxArgs) : CustomAdd(ids)
    \/ \E ids \in SeqsUpTo(Names, 0, MaxArgs) : CustomDelete(ids)
    \/ CustomClear

SpecCustom == Init /\ [][NextCustom]_vars

\* The four registries fed while the cache is not built, and the cache read
\* from the first read on.
NextBuild ==
    \/ \E id \in Names : Get(id)
    \/ \E id \in Names : Has(id)
    \/ Keys
    \/ Values
    \/ ~cached /\ \E callouts \in NameArrays : BuiltinSet(callouts)
    \/ ~cached /\ \E theme \in ThemeIds, callouts \in NameArrays : ThemeSet(theme, callouts)
    \/ ~cached /\ ThemeDelete
    \/ ~cached /\ \E id \in SnippetIds, callouts \in NameArrays : SnippetsSet(id, callouts)
    \/ ~cached /\ \E id \in SnippetIds : SnippetsDelete(id)
    \/ ~cached /\ \E ids \in SeqsUpTo(Names, 1, MaxArgs) : CustomAdd(ids)
    \/ ~cached /\ CustomClear

SpecBuild == Init /\ [][NextBuild]_vars

\* The collection fed by the Builtin registry (one callout id) and the
\* Snippets registry (two snippet ids, every callout id).
NextSnippets ==
    \/ \E id \in Names : Get(id)
    \/ \E callouts \in {<<>>, <<"note">>} : BuiltinSet(callouts)
    \/ \E id \in TwoSnippetIds, callouts \in SnippetArrays : SnippetsSet(id, callouts)
    \/ \E id \in TwoSnippetIds : SnippetsDelete(id)
    \/ SnippetsClear

SpecSnippets == Init /\ [][NextSnippets]_vars

\* invalidateSource called with any batch, as a registry holding the callback
\* may call it.
InvalidateSource(src, data) ==
    /\ UNCHANGED registryVars
    /\ Mutate("invalidateSource", <<src, data>>,
              <<Report(src, data.added, data.removed, data.changed)>>, Void)

\* The batches given to invalidateSource.
Batches ==
    {[added |-> a, removed |-> r, changed |-> ch] :
        a \in NameArrays, r \in NameArrays, ch \in NameArrays}

\* The collection read and reported any batch under two sources, after the
\* Builtin registry was filled while the cache was unbuilt.
NextReport ==
    \/ \E id \in Names : Get(id)
    \/ Keys
    \/ ~cached /\ \E callouts \in NameArrays : BuiltinSet(callouts)
    \/ \E src \in {BuiltinSource, CustomSource}, data \in Batches :
        InvalidateSource(src, data)

SpecReport == Init /\ [][NextReport]_vars

\* The collection fed by the Builtin, Theme and Snippets registries, on one
\* callout id.
Next ==
    \/ \E id \in OneName : Get(id)
    \/ \E id \in OneName : Has(id)
    \/ Keys
    \/ Values
    \/ HasChanged
    \/ CallClosure
    \/ \E id \in OneName : Invalidate(id)
    \/ \E callouts \in OneNameArrays : BuiltinSet(callouts)
    \/ \E theme \in ThemeIds, callouts \in OneNameArrays : ThemeSet(theme, callouts)
    \/ ThemeDelete
    \/ \E id \in SnippetIds, callouts \in OneNameArrays : SnippetsSet(id, callouts)
    \/ \E id \in SnippetIds : SnippetsDelete(id)
    \/ SnippetsClear

Spec == Init /\ [][Next]_vars

\* ---------------------------------------------------------------------
\* The specification of the source key codec
\* ---------------------------------------------------------------------

\* Sub-ids a snippet or theme can have: empty, with colons, and equal to or
\* containing the literals and prefixes of the keys.
SubIds ==
    {"", ":", "a", "a:b", "builtin", "custom", "snippet:", "theme:",
     "snippet:a", "theme:custom", ":builtin"}

Descriptors ==
    {BuiltinSource, CustomSource}
        \cup {SnippetSource(s) : s \in SubIds}
        \cup {ThemeSource(t) : t \in SubIds}

CodecInit ==
    /\ builtin = <<>>
    /\ themeData = <<>>
    /\ oldTheme = Some("")
    /\ snippets = EmptyMap
    /\ custom = <<>>
    /\ cached = FALSE
    /\ cacheById = EmptyMap
    /\ invalidated = <<>>
    /\ invalidationCount = 0
    /\ countSnapshot = Null
    /\ call = [op |-> "constructor", args |-> <<>>]
    /\ ret = Void
    /\ reports = <<>>
    /\ resolverCalls = <<>>
    /\ codecPc = "start"
    /\ codecIn \in Descriptors \X Descriptors
    /\ codecKey = <<>>
    /\ codecOut = <<>>
    /\ suggestPc = "idle"
    /\ suggestIn = <<>>
    /\ suggestOut = <<>>

Encode ==
    /\ codecPc = "start"
    /\ codecKey' = <<sourceToKey(codecIn[1]), sourceToKey(codecIn[2])>>
    /\ codecPc' = "encoded"
    /\ UNCHANGED <<registryVars, cacheVars, countSnapshot, obsVars, codecIn, codecOut,
                   suggestVars>>

Decode ==
    /\ codecPc = "encoded"
    /\ codecOut' = <<sourceFromKey(codecKey[1]), sourceFromKey(codecKey[2])>>
    /\ codecPc' = "decoded"
    /\ UNCHANGED <<registryVars, cacheVars, countSnapshot, obsVars, codecIn, codecKey,
                   suggestVars>>

CodecNext ==
    \/ Encode
    \/ Decode

SpecCodec == CodecInit /\ [][CodecNext]_vars

\* ---------------------------------------------------------------------
\* The specification of the decoder on arbitrary strings
\* ---------------------------------------------------------------------

\* Strings given to sourceFromKey: keys of the four forms, and strings that
\* miss a form by case, by a missing or different separator, or by a
\* character before or after.
RawKeys ==
    {"builtin", "custom", "snippet:", "theme:", "snippet:a", "theme:a",
     "snippet:theme:x", "theme:snippet:x", "snippet:builtin", "theme:custom",
     "", "builtin:", "Builtin", "custom ", " custom", "snippet", "theme",
     "snippets:a", "themes:a", " theme:a", "xsnippet:a", "Theme:a",
     "snippet;a", "builtincustom", "obsidian"}

DecodeInit ==
    /\ builtin = <<>>
    /\ themeData = <<>>
    /\ oldTheme = Some("")
    /\ snippets = EmptyMap
    /\ custom = <<>>
    /\ cached = FALSE
    /\ cacheById = EmptyMap
    /\ invalidated = <<>>
    /\ invalidationCount = 0
    /\ countSnapshot = Null
    /\ call = [op |-> "constructor", args |-> <<>>]
    /\ ret = Void
    /\ reports = <<>>
    /\ resolverCalls = <<>>
    /\ codecPc = "encoded"
    /\ codecIn = <<>>
    /\ codecKey \in RawKeys \X RawKeys
    /\ codecOut = <<>>
    /\ suggestPc = "idle"
    /\ suggestIn = <<>>
    /\ suggestOut = <<>>

DecodeNext == Decode

SpecDecode == DecodeInit /\ [][DecodeNext]_vars

\* ---------------------------------------------------------------------
\* CalloutSuggest.onTrigger
\* ---------------------------------------------------------------------

\* DEFAULT_SETTINGS.autocompleteTriggerPhrase
DefaultTriggerPhrase == "!"

\* Values of the autocompleteTriggerPhrase setting.
TriggerPhrases == {DefaultTriggerPhrase, "", "!!"}

\* Texts of the editor line the cursor is on.
EditorLines ==
    {"", ">", "!", ">!", ">!n", "a>!", ">>!", "!>", "> !", ">!!", ">!!t", ">?!"}

\* An EditorPosition on the one line of the editor.
Pos(ch) == [line |-> 0, ch |-> ch]

\* Editor.getRange(from, to) within the line: an offset before the start of
\* the line is taken as the start of the line, one after its end as its end.
getRange(text, from, to) ==
    LET clamp(ch) == IF ch < 0 THEN 0 ELSE IF ch > Len(text) THEN Len(text) ELSE ch
    IN SubSeq(text, clamp(from.ch) + 1, clamp(to.ch))

\* onTrigger that looks for the trigger phrase without the ">" before it.
onTrigger_PhraseOnly(cursor, text, context, triggerPhrase) ==
    LET startPos == IF context # Null THEN context[1].start
                    ELSE Pos(cursor.ch - Len(triggerPhrase) - 1)
    IN IF ~startsWith(getRange(text, startPos, cursor), triggerPhrase)
       THEN Null
       ELSE Some([start |-> startPos, end |-> cursor,
                  query |-> substring(getRange(text, startPos, cursor),
                                      Len(triggerPhrase))])

\* onTrigger(cursor, editor, _file), with the editor's line `text`, the
\* suggestion context `context` (this.context) and the setting `triggerPhrase`.
onTrigger(cursor, text, context, triggerPhrase) ==
    LET startPos == IF context # Null THEN context[1].start
                    ELSE Pos(cursor.ch - Len(triggerPhrase) - 1)
    IN IF ~startsWith(getRange(text, startPos, cursor), ">" \o triggerPhrase)
       THEN Null
       ELSE Some([start |-> startPos, end |-> cursor,
                  query |-> substring(getRange(text, startPos, cursor),
                                      Len(triggerPhrase))])

\* The calls of onTrigger: any line, the cursor anywhere on it, no context or
\* one that starts at or before the cursor.
SuggestInit ==
    /\ builtin = <<>>
    /\ themeData = <<>>
    /\ oldTheme = Some("")
    /\ snippets = EmptyMap
    /\ custom = <<>>
    /\ cached = FALSE
    /\ cacheById = EmptyMap
    /\ invalidated = <<>>
    /\ invalidationCount = 0
    /\ countSnapshot = Null
    /\ call = [op |-> "constructor", args |-> <<>>]
    /\ ret = Void
    /\ reports = <<>>
    /\ resolverCalls = <<>>
    /\ codecPc = "idle"
    /\ codecIn = <<>>
    /\ codecKey = <<>>
    /\ codecOut = <<>>
    /\ suggestPc = "start"
    /\ \E text \in EditorLines, triggerPhrase \in TriggerPhrases :
        \E ch \in 0..Len(text) :
            \E context \in {Null} \cup {Some([start |-> Pos(c)]) : c \in 0..ch} :
                suggestIn = [text |-> text, cursor |-> Pos(ch), context |-> context,
                             triggerPhrase |-> triggerPhrase]
    /\ suggestOut = <<>>

OnTrigger ==
    /\ suggestPc = "start"
    /\ suggestOut' = onTrigger(suggestIn.cursor, suggestIn.text, suggestIn.context,
                               suggestIn.triggerPhrase)
    /\ suggestPc' = "done"
    /\ UNCHANGED <<registryVars, cacheVars, countSnapshot, obsVars, codecVars, suggestIn>>

SuggestNext == OnTrigger

SpecSuggest == SuggestInit /\ [][SuggestNext]_vars

\* ---------------------------------------------------------------------
\* Vocabulary of the properties
\* ---------------------------------------------------------------------

\* The properties speak of what the Sets and Maps hold, not of the order they
\* hold it in: they are stated over the elements of each Set, the entries of
\* each Map by key, and the arrays given and returned as the sets of their
\* elements.

\* A callout or none, its provenance as the set of its sources.
CalloutOf(callout) ==
    IF callout = Null THEN Null
    ELSE Some([callout[1] EXCEPT !.sources = SeqToSet(@)])

\* A Map of CachedCallout as a function of the id, each entry's sources as
\* the set of its keys.
TableOf(m) ==
    [id \in SeqToSet(MapKeys(m)) |->
        LET entry == MapGet(m, id) IN
        [id |-> entry.id,
         sources |-> SeqToSet(entry.sources),
         callout |-> CalloutOf(entry.callout)]]

\* cacheById by id.
Table == TableOf(cacheById)

\* The ids of the entries in the invalidated set.
Stale == SeqToSet(invalidated)

\* The names the Builtin registry holds.
BuiltinNames == SeqToSet(builtin)

\* The names the Theme registry holds.
ThemeNames == SeqToSet(themeData)

\* The names the Snippets registry holds, by snippet id.
SnippetNames == [s \in SeqToSet(MapKeys(snippets)) |-> SeqToSet(MapGet(snippets, s))]

\* The last operation with the array of names given to a set operation as
\* the set of its elements.
Request ==
    [op |-> call.op,
     args |-> CASE call.op = "builtin.set" -> <<SeqToSet(call.args[1])>>
                [] call.op \in {"theme.set", "snippets.set"}
                    -> <<call.args[1], SeqToSet(call.args[2])>>
                [] OTHER -> call.args]

\* How the last operation ended, a returned callout with its provenance as a
\* set and the array keys() returned as the set of its elements.
Result ==
    IF ret.kind # "return" THEN ret
    ELSE CASE call.op = "get" -> Returned(CalloutOf(ret.value))
           [] call.op = "values"
                -> Returned([i \in 1..Len(ret.value) |-> CalloutOf(ret.value[i])])
           [] call.op = "keys" -> Returned(SeqToSet(ret.value))
           [] OTHER -> ret

\* The source keys of the entry a Map of entries has for id, none when it has
\* no entry.
KeysOf(m, id) == IF MapHas(m, id) THEN SeqToSet(MapGet(m, id).sources) ELSE {}

\* The source keys of id's entry; none when it has no entry.
SourcesOf(table, id) == IF id \in DOMAIN table THEN table[id].sources ELSE {}

\* The sources whose registry holds id now.
Providers(id) ==
    (IF id \in BuiltinNames THEN {BuiltinSource} ELSE {})
        \cup (IF oldTheme # Null /\ id \in ThemeNames
              THEN {ThemeSource(oldTheme[1])} ELSE {})
        \cup {SnippetSource(s) : s \in {x \in DOMAIN SnippetNames : id \in SnippetNames[x]}}
        \cup (IF id \in SeqToSet(custom) THEN {CustomSource} ELSE {})

\* The ids a diff batch names.
Touched(r) ==
    SeqToSet(r.data.added) \cup SeqToSet(r.data.removed) \cup SeqToSet(r.data.changed)

\* The last operation was this read and it returned.
ReturnedFrom(op) == Request.op = op /\ Result.kind = "return"

\* ---------------------------------------------------------------------
\* Properties
\* ---------------------------------------------------------------------

\* C1: on a built cache, a Theme.set whose theme id differs from the active
\* one leaves every name of the new membership in the table and no name that
\* only the old theme provided.
C1_ThemeSwitchReplacesNames ==
    [][(cached /\ Request'.op = "theme.set" /\ oldTheme # Some(Request'.args[1]))
        => /\ \A id \in Request'.args[2] : id \in DOMAIN Table'
           /\ \A id \in ThemeNames \ Request'.args[2] :
                Providers(id)' = {} => id \notin DOMAIN Table']_vars

\* C2: Custom.delete(name) of a name that is not in the Custom sequence changes
\* neither the sequence nor the cache and reports no diff.
C2_DeleteAbsentIsNoOp ==
    [][(/\ Request'.op = "custom.delete"
        /\ Len(Request'.args) = 1
        /\ Request'.args[1] \notin SeqToSet(custom))
        => /\ custom' = custom
           /\ reports' = <<>>
           /\ UNCHANGED cacheVars]_vars

\* C3: the provenance of a callout that get returns is the decoding of the
\* source keys its entry has at that moment.
C3_ProvenanceIsCurrent ==
    (ReturnedFrom("get") /\ Result.value # Null)
        => Result.value[1].sources
            = {sourceFromKey(k) : k \in SourcesOf(Table, Request.args[1])}

\* C4: on a built cache a name stays in the table while some registry holds
\* it, its provenance names every registry holding it, and it leaves the table
\* in the step in which the last registry holding it reports it removed.
C4_PresentWhileProvided ==
    [][cached
        => \A id \in Names :
            /\ Providers(id)' # {} => id \in DOMAIN Table'
            /\ (/\ Providers(id) # {}
                /\ Providers(id)' = {}
                /\ \E i \in 1..Len(reports') : id \in SeqToSet(reports'[i].data.removed))
                => id \notin DOMAIN Table'
            /\ (/\ Request'.op = "get"
                /\ Request'.args = <<id>>
                /\ Result'.kind = "return"
                /\ {BuiltinSource, CustomSource} \subseteq Providers(id)')
                => {BuiltinSource, CustomSource} \subseteq Result'.value[1].sources]_vars

\* The source keys of an entry after one diff batch: removed names are
\* processed before added ones.
AfterBatch(S, r, id) ==
    IF id \in SeqToSet(r.data.added) THEN S \cup {sourceToKey(r.src)}
    ELSE IF id \in SeqToSet(r.data.removed) THEN S \ {sourceToKey(r.src)}
    ELSE S

RECURSIVE AfterBatches(_, _, _)
AfterBatches(S, rs, id) ==
    IF rs = <<>> THEN S ELSE AfterBatches(AfterBatch(S, Head(rs), id), Tail(rs), id)

\* C5: on a built cache no entry has an empty sources set, and after every
\* operation a name has an entry iff the keys added and not since removed for
\* it are not empty; those keys are the entry's sources.
C5_EntryIffSources ==
    [][cached'
        => /\ \A i \in 1..Len(cacheById') : cacheById'[i].value.sources # <<>>
           /\ cached
                => \A id \in Names :
                    LET keys == AfterBatches(KeysOf(cacheById, id), reports', id) IN
                    /\ MapHas(cacheById', id) <=> keys # {}
                    /\ KeysOf(cacheById', id) = keys]_vars

\* An entry lost its last source and left the table while the cache was built.
C5_Witness ==
    /\ cached
    /\ invalidationCount > 0
    /\ \E i \in 1..Len(reports) :
        \E id \in SeqToSet(reports[i].data.removed) : id \notin DOMAIN Table

\* What C6 says of the closure apart from the diffs that make it report
\* "changed": a new closure reports "unchanged", keeps doing so while no
\* diff is reported, and once it reports "changed" it goes on doing so.
C6_ClosureOtherwise ==
    /\ Request'.op = "hasChanged" => ~closureResult'
    /\ (/\ countSnapshot # Null
        /\ countSnapshot' = countSnapshot
        /\ ~closureResult
        /\ reports' = <<>>) => ~closureResult'
    /\ (/\ countSnapshot # Null
        /\ countSnapshot' = countSnapshot
        /\ closureResult) => closureResult'

\* C6 as claimed: the closure reports "changed" after any diff batch that names
\* at least one callout.
C6_ChangedAfterAnyDiff ==
    [][/\ C6_ClosureOtherwise
       /\ (/\ countSnapshot # Null
           /\ \E i \in 1..Len(reports') : Touched(reports'[i]) # {})
           => closureResult']_vars

\* C6 as amended: the closure reports "changed" after any diff batch that names
\* at least one callout and is reported to a built cache.
C6_ChangedAfterDiffOnBuiltCache ==
    [][/\ C6_ClosureOtherwise
       /\ (/\ countSnapshot # Null
           /\ cached
           /\ \E i \in 1..Len(reports') : Touched(reports'[i]) # {})
           => closureResult']_vars

\* A closure reports "changed" after a batch of changed names alone.
C6_Witness ==
    /\ countSnapshot # Null
    /\ cached
    /\ Len(reports) = 1
    /\ reports[1].data.added = <<>>
    /\ reports[1].data.removed = <<>>
    /\ reports[1].data.changed # <<>>
    /\ invalidationCount = countSnapshot[1] + 1
    /\ closureResult

Reads == {"get", "values"}

\* The ids the resolver answered for in the last operation: all it was called
\* with, but for the one it threw on.
Answered(r, calls) ==
    IF r.kind = "throw" THEN SeqToSet(SubSeq(calls, 1, Len(calls) - 1))
    ELSE SeqToSet(calls)

\* Where the cache is built before the step: get and values leave a fresh entry
\* alone and do not call the resolver for it, and two get(id) in a row that
\* both return call it at most once and return the same callout.
C7_FreshIsNotResolvedAgain ==
    /\ (cached /\ Request'.op \in Reads)
        => \A id \in (DOMAIN Table) \ Stale :
            /\ id \notin SeqToSet(resolverCalls')
            /\ id \in DOMAIN Table'
            /\ Table'[id] = Table[id]
            /\ id \notin Stale'
            /\ (Request'.op = "get" /\ Request'.args = <<id>>)
                => Result' = Returned(Table[id].callout)
    /\ (/\ ReturnedFrom("get")
        /\ Request'.op = "get"
        /\ Request'.args = Request.args
        /\ Result'.kind = "return")
        => /\ Len(resolverCalls) + Len(resolverCalls') <= 1
           /\ Result' = Result

\* C7: resolution is paid at most once per invalidation: every entry that get
\* or values resolved is fresh afterwards, whether or not the call returned,
\* so that no later read resolves it again before it is invalidated; a fresh
\* entry is returned as it is without a resolver call.
C7_ResolvedOncePerInvalidation ==
    [][/\ C7_FreshIsNotResolvedAgain
       /\ Request'.op \in Reads
            => \A id \in Answered(Result', resolverCalls') : id \notin Stale']_vars

\* C9: a values() that returns leaves no entry stale, has called the resolver
\* once for each entry that was stale and for no other, and returns one
\* resolved callout per entry.
C9_ValuesResolvesStale ==
    [][(Request'.op = "values" /\ Result'.kind = "return")
        => LET stale == IF cached THEN Stale ELSE DOMAIN Table' IN
           /\ Stale' = {}
           /\ SeqToSet(resolverCalls') = stale
           /\ Len(resolverCalls') = Cardinality(stale)
           /\ Len(Result'.value) = Cardinality(DOMAIN Table')
           /\ \A i \in 1..Len(Result'.value) : Result'.value[i] # Null
           /\ {Result'.value[i][1].id : i \in 1..Len(Result'.value)} = DOMAIN Table'
           /\ \A id \in DOMAIN Table' : Result'.value[CHOOSE i \in 1..Len(Result'.value) :
                    Result'.value[i][1].id = id] = Table'[id].callout]_vars

\* values() returned two callouts after resolving the one stale entry.
C9_Witness ==
    /\ ReturnedFrom("values")
    /\ Len(Result.value) = 2
    /\ Len(resolverCalls) = 1
    /\ invalidationCount > 0

\* C10: only get and values call the resolver, and only for entries stale at
\* the call; no other operation turns a stale entry of the table fresh.
C10_OnlyReadsResolve ==
    [][/\ Request'.op \notin Reads
            => /\ resolverCalls' = <<>>
               /\ \A id \in Stale :
                    id \in DOMAIN Table' => id \in Stale'
       /\ \A id \in SeqToSet(resolverCalls') :
            /\ Request'.op \in Reads
            /\ cached => id \in Stale]_vars

\* has() found a stale entry and left it stale.
C10_Witness ==
    /\ ReturnedFrom("has")
    /\ Result.value = TRUE
    /\ Request.args[1] \in Stale
    /\ invalidationCount > 0

\* C11: an invalidateSource call made while the cache is not built leaves the
\* table, the invalidated set, the cached flag and invalidationCount as they
\* were, whatever the batch names.
C11_UnbuiltReportIsNoOp ==
    [][(~cached /\ reports' # <<>>) => UNCHANGED cacheVars]_vars

\* A batch that names callouts was reported to a cache that is not built.
C11_Witness ==
    /\ ~cached
    /\ DOMAIN Table = {}
    /\ invalidationCount = 0
    /\ \E i \in 1..Len(reports) :
        reports[i].data.added # <<>> \/ reports[i].data.removed # <<>>

\* C12: invalidationCount goes up by one for each invalidateSource call made on
\* a built cache, whatever the number of names in the batch, and no other
\* operation changes it.
C12_CountsBatches ==
    [][/\ invalidationCount' >= invalidationCount
       /\ invalidationCount' = invalidationCount + (IF cached THEN Len(reports') ELSE 0)
       /\ reports' = <<>> => invalidationCount' = invalidationCount]_vars

\* A batch that names no callout was counted.
C12_Witness ==
    /\ cached
    /\ Len(reports) = 1
    /\ Touched(reports[1]) = {}
    /\ countSnapshot = Some(invalidationCount - 1)
    /\ Request.op = "builtin.set"

\* C13: the read that builds the cache leaves a table of exactly the names
\* some registry holds, each entry with the keys of exactly the registries
\* holding its name: Builtin, the active theme, every snippet with the name,
\* Custom.  Every entry is stale after the build: has and keys leave them all
\* stale, get and values call the resolver for the entries they return, and
\* an entry the resolver did not answer for stays stale with no callout.
C13_BuildTagsEveryRegistry ==
    [][(~cached /\ cached')
        => /\ DOMAIN Table' = {id \in Names : Providers(id) # {}}
           /\ \A id \in DOMAIN Table' :
                /\ Table'[id].id = id
                /\ Table'[id].sources = {sourceToKey(s) : s \in Providers(id)}
           /\ Request'.op \in {"has", "keys"} => Stale' = DOMAIN Table'
           /\ \A id \in (DOMAIN Table') \ Answered(Result', resolverCalls') :
                id \in Stale' /\ Table'[id].callout = Null
           /\ (Request'.op = "get" /\ Request'.args[1] \in DOMAIN Table')
                => resolverCalls' = Request'.args
           /\ (Request'.op = "values" /\ Result'.kind = "return")
                => SeqToSet(resolverCalls') = DOMAIN Table']_vars

\* keys() built the cache with a name held by all four registries and a name
\* held by none of them.
C13_Witness ==
    /\ cached
    /\ Request.op = "keys"
    /\ Stale = DOMAIN Table
    /\ \E id \in DOMAIN Table :
        /\ Table[id].sources = {"builtin", "custom", "snippet:s1", "theme:t2"}
        /\ Table[id].callout = Null
    /\ \E id \in Names : id \notin DOMAIN Table

\* C14: once cached is true it stays true, and no operation on a built cache
\* builds it again: has and keys change nothing of it, get and values keep
\* every entry with its sources and keep the fresh entries fresh with their
\* callouts, invalidate keeps the table, and a registry mutator keeps every
\* entry its batches do not name.
C14_BuiltOnce ==
    [][cached
        => LET before == Table
               after == Table'
               op == call'.op
           IN
           /\ cached'
           /\ op \in {"has", "keys", "hasChanged", "closure"} => UNCHANGED cacheVars
           /\ op \in Reads \cup {"invalidate"}
                => /\ DOMAIN after = DOMAIN before
                   /\ \A id \in DOMAIN before :
                        /\ after[id].sources = before[id].sources
                        /\ id \notin SeqToSet(resolverCalls')
                            => after[id] = before[id]
                   /\ op \in Reads => Stale' \subseteq Stale
                   /\ op = "invalidate" => Stale \subseteq Stale'
           /\ \A id \in DOMAIN before :
                (\A i \in 1..Len(reports') : id \notin Touched(reports'[i]))
                    => /\ id \in DOMAIN after
                       /\ after[id].sources = before[id].sources
                       /\ op \notin Reads \cup {"invalidate"}
                            => /\ after[id] = before[id]
                               /\ id \in Stale' <=> id \in Stale]_vars

\* keys() on a cache built earlier found a fresh entry and left it fresh.
C14_Witness ==
    /\ cached
    /\ Request.op = "keys"
    /\ invalidationCount > 0
    /\ \E id \in DOMAIN Table : id \notin Stale /\ Table[id].callout # Null

\* C15: a get or values during which the resolver throws ends with that
\* error: the resolver is not called again for any id, the entry it threw for
\* stays stale with the callout it had, and the table keeps its ids and their
\* sources (those of the build when the call built the cache).  A get that
\* called the resolver and returned gives the resolved callout, never a
\* substitute.
C15_ResolverFailurePropagates ==
    [][/\ (Request'.op \in Reads /\ Result'.kind = "throw")
            => LET failed == resolverCalls'[Len(resolverCalls')] IN
               /\ Result' = Thrown
               /\ resolverCalls' # <<>>
               /\ Cardinality(SeqToSet(resolverCalls')) = Len(resolverCalls')
               /\ Request'.op = "get" => resolverCalls' = Request'.args
               /\ failed \in DOMAIN Table'
               /\ failed \in Stale'
               /\ Table'[failed].callout
                    = (IF cached THEN Table[failed].callout ELSE Null)
               /\ cached
                    => /\ DOMAIN Table' = DOMAIN Table
                       /\ \A id \in DOMAIN Table :
                            Table'[id].sources = Table[id].sources
               /\ ~cached
                    => /\ DOMAIN Table' = {id \in Names : Providers(id) # {}}
                       /\ \A id \in DOMAIN Table' :
                            Table'[id].sources = {sourceToKey(s) : s \in Providers(id)}
       /\ (Request'.op = "get" /\ Result'.kind = "return" /\ resolverCalls' # <<>>)
            => /\ Result'.value # Null
               /\ Result'.value = Table'[Request'.args[1]].callout
               /\ Request'.args[1] \notin Stale']_vars

\* values() on a built cache threw at the second of two stale entries.
C15_Witness ==
    /\ cached
    /\ Request.op = "values"
    /\ Result.kind = "throw"
    /\ Len(resolverCalls) = 2
    /\ invalidationCount > 0
    /\ DOMAIN Table = Names

\* The strings of RawKeys that have none of the four forms.
MalformedKeys ==
    {"", "builtin:", "Builtin", "custom ", " custom", "snippet", "theme",
     "snippets:a", "themes:a", " theme:a", "xsnippet:a", "Theme:a",
     "snippet;a", "builtincustom", "obsidian"}

\* The descriptors of the strings of RawKeys that have one of the four forms.
ExpectedDecoding ==
    "builtin" :> BuiltinSource
        @@ "custom" :> CustomSource
        @@ "snippet:" :> SnippetSource("")
        @@ "theme:" :> ThemeSource("")
        @@ "snippet:a" :> SnippetSource("a")
        @@ "theme:a" :> ThemeSource("a")
        @@ "snippet:theme:x" :> SnippetSource("theme:x")
        @@ "theme:snippet:x" :> ThemeSource("snippet:x")
        @@ "snippet:builtin" :> SnippetSource("builtin")
        @@ "theme:custom" :> ThemeSource("custom")

\* C16: sourceFromKey gives a descriptor for "builtin", for "custom" and for
\* the strings that start with "snippet:" or with "theme:", and throws its
\* error for every other string.
C16_DecodeRejectsOtherStrings ==
    (codecPc = "decoded" /\ codecIn = <<>>)
        => \A i \in 1..2 :
            /\ codecKey[i] \in MalformedKeys \cup DOMAIN ExpectedDecoding
            /\ codecKey[i] \in MalformedKeys
                => codecOut[i] = UnknownSourceKey(codecKey[i])
            /\ codecKey[i] \in DOMAIN ExpectedDecoding
                => codecOut[i] = ExpectedDecoding[codecKey[i]]
            /\ codecOut[i].type = "Error" <=> codecKey[i] \in MalformedKeys

\* A prefix without its colon was rejected next to a key whose sub-id is
\* itself a key.
C16_Witness ==
    /\ codecPc = "decoded"
    /\ codecKey = <<"snippet", "theme:snippet:x">>
    /\ codecOut = <<UnknownSourceKey("snippet"), ThemeSource("snippet:x")>>

\* The 1-based position of the first x in q.
FirstAt(q, x) == CHOOSE i \in 1..Len(q) : q[i] = x /\ \A j \in 1..(i - 1) : q[j] # x

\* q has no element twice.
NoRepeat(q) == \A i, j \in 1..Len(q) : q[i] = q[j] => i = j

\* C17: Custom.add keeps the sequence it had and appends to it, once each and
\* in the order of their first occurrence among the arguments, the arguments
\* that were not in it; it reports the appended names as one batch of added
\* names, and nothing when it appended none.
C17_AddAppendsNewNames ==
    [][Request'.op = "custom.add"
        => LET old == custom
               new == SubSeq(custom', Len(old) + 1, Len(custom'))
           IN /\ Len(custom') >= Len(old)
              /\ SubSeq(custom', 1, Len(old)) = old
              /\ SeqToSet(new) = SeqToSet(Request'.args) \ SeqToSet(old)
              /\ NoRepeat(new)
              /\ \A i, j \in 1..Len(new) :
                    i < j => FirstAt(Request'.args, new[i]) < FirstAt(Request'.args, new[j])
              /\ new = <<>> => reports' = <<>>
              /\ new # <<>>
                    => reports' = <<[src |-> CustomSource,
                                     data |-> [added |-> new, removed |-> <<>>,
                                               changed |-> <<>>]]>>]_vars

\* Custom.add was given a new name twice and appended and reported it once.
C17_Witness ==
    /\ Request = [op |-> "custom.add", args |-> <<"tip", "tip">>]
    /\ custom = <<"note", "tip">>
    /\ Len(reports) = 1
    /\ reports[1].data.added = <<"tip">>
    /\ cached

\* C18: Custom.delete takes out of the sequence the arguments that are in it
\* and nothing else, leaves the other names in their order, and reports the
\* names it took out as removed.
C18_DeleteRemovesGivenNames ==
    [][Request'.op = "custom.delete"
        => LET given == SeqToSet(Request'.args)
               kept(x) == x \notin given
               gone == SeqToSet(custom) \cap given
           IN /\ custom' = SelectSeq(custom, kept)
              /\ gone = {} => reports' = <<>>
              /\ gone # {}
                    => /\ Len(reports') = 1
                       /\ reports'[1].src = CustomSource
                       /\ SeqToSet(reports'[1].data.removed) = gone
                       /\ reports'[1].data.added = <<>>
                       /\ reports'[1].data.changed = <<>>]_vars

\* The keys of theme sources.
IsThemeKey(k) == startsWith(k, "theme:")

\* C19: after Theme.delete on a built cache the theme id is null, the Theme
\* membership is empty, no entry has a theme key among its sources, and no
\* entry is left that had theme keys only.
C19_DeleteClearsTheme ==
    [][(cached /\ Request'.op = "theme.delete")
        => /\ oldTheme' = Null
           /\ ThemeNames' = {}
           /\ \A id \in DOMAIN Table' :
                \A k \in Table'[id].sources : ~IsThemeKey(k)
           /\ \A id \in DOMAIN Table :
                (\A k \in Table[id].sources : IsThemeKey(k))
                    => id \notin DOMAIN Table']_vars

\* The keys of snippet sources.
IsSnippetKey(k) == startsWith(k, "snippet:")

\* C20: Snippets.delete of a known id returns true, forgets the id and reports
\* the names the snippet had as removed, after which no entry has the
\* snippet's key among its sources; Snippets.delete of an unknown id returns
\* false, reports nothing and changes neither the registry nor the cache;
\* Snippets.clear deletes every id, one report each, after which the registry
\* has no id and no entry has a snippet key among its sources.
C20_DeleteAndClearDropSnippetKeys ==
    [][/\ (Request'.op = "snippets.delete" /\ Request'.args[1] \in DOMAIN SnippetNames)
            => LET id == Request'.args[1] IN
               /\ Result' = Returned(TRUE)
               /\ SnippetNames' = [x \in (DOMAIN SnippetNames) \ {id} |-> SnippetNames[x]]
               /\ Len(reports') = 1
               /\ reports'[1].src = SnippetSource(id)
               /\ SeqToSet(reports'[1].data.removed) = SnippetNames[id]
               /\ reports'[1].data.added = <<>>
               /\ reports'[1].data.changed = <<>>
               /\ \A n \in DOMAIN Table' :
                    /\ ("snippet:" \o id) \notin Table'[n].sources
                    /\ Table'[n].sources = SourcesOf(Table, n) \ {"snippet:" \o id}
       /\ (Request'.op = "snippets.delete" /\ Request'.args[1] \notin DOMAIN SnippetNames)
            => /\ Result' = Returned(FALSE)
               /\ reports' = <<>>
               /\ SnippetNames' = SnippetNames
               /\ UNCHANGED cacheVars
       /\ Request'.op = "snippets.clear"
            => /\ DOMAIN SnippetNames' = {}
               /\ Len(reports') = Cardinality(DOMAIN SnippetNames)
               /\ {reports'[i].src : i \in 1..Len(reports')}
                    = {SnippetSource(s) : s \in DOMAIN SnippetNames}
               /\ \A i \in 1..Len(reports') :
                    SeqToSet(reports'[i].data.removed) = SnippetNames[reports'[i].src.snippet]
               /\ \A n \in DOMAIN Table' :
                    /\ \A k \in Table'[n].sources : ~IsSnippetKey(k)
                    /\ Table'[n].sources
                        = {k \in SourcesOf(Table, n) : ~IsSnippetKey(k)}]_vars

\* Snippets.clear deleted two snippets that held names of a built cache, one
\* of which Builtin still holds.
C20_Witness ==
    /\ cached
    /\ Request.op = "snippets.clear"
    /\ Len(reports) = 2
    /\ reports[1].data.removed # <<>>
    /\ reports[2].data.removed # <<>>
    /\ \E n \in DOMAIN Table : Table[n].sources = {"builtin"}
    /\ \E n \in Names : n \notin DOMAIN Table
    /\ invalidationCount >= 2

\* C21: with no suggestion context, onTrigger returns trigger info iff the
\* triggerPhrase.length + 1 characters before the cursor are ">" followed by
\* the trigger phrase, and null otherwise; the info runs from the ">" to the
\* cursor.
C21_TriggerOnPhrase ==
    (suggestPc = "done" /\ suggestIn.context = Null)
        => LET n == Len(suggestIn.triggerPhrase) + 1
               ch == suggestIn.cursor.ch
               before == IF ch >= n THEN SubSeq(suggestIn.text, ch - n + 1, ch)
                         ELSE "fewer characters"
           IN /\ suggestOut # Null <=> before = ">" \o suggestIn.triggerPhrase
              /\ suggestOut # Null
                    => /\ suggestOut[1].start = Pos(ch - n)
                       /\ suggestOut[1].end = suggestIn.cursor
              /\ (suggestIn.triggerPhrase = DefaultTriggerPhrase /\ suggestOut # Null)
                    => before = ">!"

\* With the default setting, onTrigger opened the suggestion at ">!" typed
\* after other text.
C21_Witness ==
    /\ suggestPc = "done"
    /\ suggestIn.context = Null
    /\ suggestIn.triggerPhrase = DefaultTriggerPhrase
    /\ suggestIn.text = "a>!"
    /\ suggestIn.cursor = Pos(3)
    /\ suggestOut # Null
    /\ suggestOut[1].start = Pos(1)

\* C22: in every state of a built cache the table has the ids, and each entry
\* the sources, that buildCache would give it from the registries as they are.
C22_IncrementalAgreesWithBuild ==
    cached
        => LET built == TableOf(buildCache(Cache).cacheById) IN
           /\ DOMAIN Table = DOMAIN built
           /\ \A id \in DOMAIN Table : Table[id].sources = built[id].sources

\* C23: a Theme.set with a theme id other than the current one makes two
\* invalidateSource calls: the old theme id with every previous name removed,
\* then the new theme id with every new name added.
C23_ThemeChangeReportsTwice ==
    [][(Request'.op = "theme.set" /\ oldTheme # Some(Request'.args[1]))
        => /\ Len(reports') = 2
           /\ reports'[1].src = ThemeSource(IF oldTheme = Null THEN "" ELSE oldTheme[1])
           /\ SeqToSet(reports'[1].data.removed) = ThemeNames
           /\ reports'[1].data.added = <<>>
           /\ reports'[1].data.changed = <<>>
           /\ reports'[2].src = ThemeSource(Request'.args[1])
           /\ SeqToSet(reports'[2].data.added) = Request'.args[2]
           /\ reports'[2].data.removed = <<>>
           /\ reports'[2].data.changed = <<>>]_vars

\* C24: on a built cache an entry is stale after a batch that adds a source to
\* it, after a batch that lists it as changed, and after a batch that removes
\* one of its sources and leaves it with another.
C24_StaleOnEveryBatchEffect ==
    [][cached
        => \A i \in 1..Len(reports') :
            \A id \in DOMAIN Table' :
                (\/ id \in SeqToSet(reports'[i].data.added)
                 \/ id \in SeqToSet(reports'[i].data.changed)
                 \/ /\ id \in SeqToSet(reports'[i].data.removed)
                    /\ sourceToKey(reports'[i].src) \in SourcesOf(Table, id))
                    => id \in Stale']_vars

\* C25: every member of the invalidated set is an entry of the table: an entry
\* that leaves the table leaves the set, and nothing enters the set that is
\* not in the table.
C25_StaleWithinTable ==
    /\ Stale \subseteq DOMAIN Table
    /\ ~cached => Stale = {} /\ DOMAIN Table = {}
    /\ (Request.op = "invalidate" /\ Request.args[1] \notin DOMAIN Table)
        => Request.args[1] \notin Stale

\* An entry that was never resolved lost its last source and left the table
\* and the invalidated set, in which another entry remains.
C25_Witness ==
    /\ cached
    /\ Len(reports) = 1
    /\ \E id \in SeqToSet(reports[1].data.removed) :
        id \notin DOMAIN Table /\ id \notin Stale
    /\ Stale # {}
    /\ Request.op = "custom.clear"
    /\ resolverCalls = <<>>
    /\ \A id \in DOMAIN Table : Table[id].callout = Null
    /\ countSnapshot = Null

\* C26: on a built cache a name that a batch lists as added has afterwards an
\* entry with the batch's source key, and that entry is stale whether or not
\* it existed before; a get of the name right after the batch calls the
\* resolver, and what it returns has the added source in its provenance.
C26_AddedIsStale ==
    [][/\ cached
            => \A i \in 1..Len(reports') :
                \A id \in SeqToSet(reports'[i].data.added) :
                    /\ id \in Stale'
                    /\ sourceToKey(reports'[i].src) \in SourcesOf(Table', id)
       /\ \A i \in 1..Len(reports) :
            \A id \in SeqToSet(reports[i].data.added) :
                (Request'.op = "get" /\ Request'.args = <<id>>)
                    => /\ resolverCalls' = <<id>>
                       /\ Result'.kind = "return"
                            => /\ Result'.value # Null
                               /\ reports[i].src \in Result'.value[1].sources]_vars

\* Custom.add gave a second source to an entry that had been resolved as a
\* builtin callout, and the entry is stale.
C26_Witness ==
    /\ cached
    /\ Request = [op |-> "custom.add", args |-> <<"note">>]
    /\ Len(reports) = 1
    /\ reports[1].data.added = <<"note">>
    /\ "note" \in DOMAIN Table
    /\ Table["note"].sources = {"builtin", "custom"}
    /\ Table["note"].callout # Null
    /\ Table["note"].callout[1].sources = {BuiltinSource}
    /\ "note" \in Stale

\* C27: the changed list of a batch creates no entry, deletes none and changes
\* no entry's sources: the table's ids and sources after the batch are those
\* its removed and added lists give.  A changed name that has an entry after
\* them is stale; a name that is only listed as changed keeps its entry as it
\* is when it has one and gets none when it has none; a name the batch does
\* not list keeps its entry and its staleness.
C27_ChangedKeepsMembership ==
    [][(cached /\ Len(reports') = 1)
        => LET data == reports'[1].data
               onlyChanged == SeqToSet(data.changed)
                                \ (SeqToSet(data.added) \cup SeqToSet(data.removed))
           IN \A id \in Names :
                LET keys == AfterBatch(SourcesOf(Table, id), reports'[1], id) IN
                /\ id \in DOMAIN Table' <=> keys # {}
                /\ SourcesOf(Table', id) = keys
                /\ (id \in SeqToSet(data.changed) /\ id \in DOMAIN Table')
                    => id \in Stale'
                /\ (id \in onlyChanged /\ id \in DOMAIN Table)
                    => Table'[id] = Table[id] /\ id \in Stale'
                /\ (id \in onlyChanged /\ id \notin DOMAIN Table)
                    => id \notin DOMAIN Table' /\ id \notin Stale'
                /\ id \notin Touched(reports'[1])
                    => /\ SourcesOf(Table', id) = SourcesOf(Table, id)
                       /\ id \in Stale' <=> id \in Stale]_vars

\* A batch that lists two names as changed and nothing else marked the fresh
\* entry of one stale and ignored the other, which has no entry.
C27_Witness ==
    /\ cached
    /\ Request.op = "invalidateSource"
    /\ reports[1].data.added = <<>>
    /\ reports[1].data.removed = <<>>
    /\ SeqToSet(reports[1].data.changed) = Names
    /\ Cardinality(DOMAIN Table) = 1
    /\ Stale = DOMAIN Table
    /\ \A id \in DOMAIN Table : Table[id].callout # Null
    /\ resolverCalls = <<>>

\* The batch lists the items of `new` not in `old` as added, those of `old`
\* not in `new` as removed and those of both as changed, each once.
IsDiffOf(data, old, new) ==
    /\ SeqToSet(data.added) = new \ old
    /\ SeqToSet(data.removed) = old \ new
    /\ SeqToSet(data.changed) = old \cap new
    /\ NoRepeat(data.added) /\ NoRepeat(data.removed) /\ NoRepeat(data.changed)
    /\ SeqToSet(data.added) \cap SeqToSet(data.removed) = {}
    /\ SeqToSet(data.added) \cap SeqToSet(data.changed) = {}
    /\ SeqToSet(data.removed) \cap SeqToSet(data.changed) = {}
    /\ Touched([data |-> data]) = old \cup new

\* C28: diff splits the union of the previous and the new set into added,
\* removed and same; Snippets.set of a known snippet id reports them as
\* added, removed and changed under the snippet's source, and so does
\* Builtin.set under the builtin source.
C28_DiffPartitionsUnion ==
    [][/\ (Request'.op = "snippets.set" /\ Request'.args[1] \in DOMAIN SnippetNames)
            => /\ Len(reports') = 1
               /\ reports'[1].src = SnippetSource(Request'.args[1])
               /\ IsDiffOf(reports'[1].data, SnippetNames[Request'.args[1]], Request'.args[2])
       /\ Request'.op = "builtin.set"
            => /\ Len(reports') = 1
               /\ reports'[1].src = BuiltinSource
               /\ IsDiffOf(reports'[1].data, BuiltinNames, Request'.args[1])]_vars

\* Snippets.set("s1", ["tip", "note"]) on the snippet that held "tip"
\* reported added = ["note"], removed = [], changed = ["tip"].
C28_Witness ==
    /\ Request = [op |-> "snippets.set", args |-> <<"s1", {"tip", "note"}>>]
    /\ reports = <<[src |-> SnippetSource("s1"),
                    data |-> [added |-> <<"note">>, removed |-> <<>>,
                              changed |-> <<"tip">>]]>>
    /\ SnippetNames["s1"] = {"tip", "note"}

\* C29: after Builtin.set(S) on a built cache every name of S has an entry, an
\* entry has the key "builtin" iff its name is in S, the names that were and
\* still are builtin are stale, and every entry has the other keys it had.
C29_BuiltinSetReplacesKey ==
    [][(cached /\ Request'.op = "builtin.set")
        => LET S == Request'.args[1] IN
           /\ BuiltinNames' = S
           /\ S \subseteq DOMAIN Table'
           /\ \A id \in DOMAIN Table' : "builtin" \in Table'[id].sources <=> id \in S
           /\ \A id \in BuiltinNames \cap S : id \in Stale'
           /\ \A id \in Names :
                SourcesOf(Table', id) \ {"builtin"} = SourcesOf(Table, id) \ {"builtin"}
           /\ \A id \in DOMAIN Table :
                id \notin DOMAIN Table' => Table[id].sources = {"builtin"}]_vars

\* Builtin.set repeated the membership of a resolved entry that a snippet
\* holds too: the entry is stale and keeps both keys.
C29_Witness ==
    /\ cached
    /\ Request = [op |-> "builtin.set", args |-> <<{"note"}>>]
    /\ reports[1].data.changed = <<"note">>
    /\ "note" \in Stale
    /\ Table["note"].callout # Null
    /\ Table["note"].sources = {"builtin", "snippet:s1"}

\* C30: the Custom sequence never holds a name twice, whatever add, delete and
\* clear calls were made, and add leaves the names it found where they were:
\* what it adds comes after them and was not among them.
C30_CustomHasNoDuplicates ==
    [][/\ NoRepeat(custom) => NoRepeat(custom')
       /\ Cardinality(SeqToSet(custom')) = Len(custom')
       /\ Request'.op = "custom.add"
            => /\ Len(custom') >= Len(custom)
               /\ \A i \in 1..Len(custom) : custom'[i] = custom[i]
               /\ \A i \in (Len(custom) + 1)..Len(custom') :
                    custom'[i] \notin SeqToSet(custom)]_vars

\* Custom.add("note", "tip") found "tip" in the sequence and appended "note"
\* after it.
C30_Witness ==
    /\ Request = [op |-> "custom.add", args |-> <<"note", "tip">>]
    /\ custom = <<"tip", "note">>
    /\ Len(reports) = 1
    /\ reports[1].data.added = <<"note">>

\* C31: Snippets.set and Snippets.delete of one snippet id leave every other
\* snippet id with the names it had, leave the other snippet keys in the
\* entries that had them and in no other, and leave in the table every entry
\* that has a source other than the snippet's.
C31_SnippetIdsAreIndependent ==
    [][Request'.op \in {"snippets.set", "snippets.delete"}
        => LET s1 == Request'.args[1]
               key1 == "snippet:" \o s1
           IN /\ \A s2 \in TwoSnippetIds \ {s1} :
                    /\ s2 \in DOMAIN SnippetNames' <=> s2 \in DOMAIN SnippetNames
                    /\ s2 \in DOMAIN SnippetNames => SnippetNames'[s2] = SnippetNames[s2]
                    /\ \A id \in Names :
                        ("snippet:" \o s2) \in SourcesOf(Table', id)
                            <=> ("snippet:" \o s2) \in SourcesOf(Table, id)
              /\ \A id \in DOMAIN Table :
                    Table[id].sources \ {key1} # {}
                        => /\ id \in DOMAIN Table'
                           /\ Table'[id].sources \ {key1} = Table[id].sources \ {key1}
              /\ \A id \in DOMAIN Table' :
                    Table'[id].sources \ {key1} = SourcesOf(Table, id) \ {key1}]_vars

\* Snippets.delete("s1") took a name out of a built cache's entry that the
\* snippet s2 holds too, and the entry is left with the key of s2 alone.
C31_Witness ==
    /\ cached
    /\ Request = [op |-> "snippets.delete", args |-> <<"s1">>]
    /\ Len(reports) = 1
    /\ "s2" \in DOMAIN SnippetNames
    /\ \E id \in SeqToSet(reports[1].data.removed) :
        /\ id \in SnippetNames["s2"]
        /\ id \in DOMAIN Table
        /\ Table[id].sources = {"snippet:s2"}

\* C32: Custom.clear reports the names of the sequence as removed and empties
\* it; on a built cache no entry has the key "custom" afterwards, the entries
\* that had that key alone are gone, and the entries with another key remain
\* with their other keys.
C32_ClearDropsCustomKey ==
    [][Request'.op = "custom.clear"
        => /\ custom' = <<>>
           /\ Len(reports') = 1
           /\ reports'[1].src = CustomSource
           /\ reports'[1].data.removed = custom
           /\ reports'[1].data.added = <<>>
           /\ reports'[1].data.changed = <<>>
           /\ cached
                => /\ \A id \in DOMAIN Table' : "custom" \notin Table'[id].sources
                   /\ \A id \in DOMAIN Table :
                        IF Table[id].sources = {"custom"}
                        THEN id \notin DOMAIN Table'
                        ELSE /\ id \in DOMAIN Table'
                             /\ Table'[id].sources = Table[id].sources \ {"custom"}]_vars

\* The id the resolver threw for in the last operation.
FailedId == resolverCalls[Len(resolverCalls)]

\* C33: the entry for which the resolver threw during a get or values is in
\* the invalidated set afterwards, with the callout it had before the call
\* (none if it was never resolved), and a get of it that follows calls the
\* resolver again: it does not return the entry's callout as it stands.
C33_FailedEntryStaysStale ==
    [][/\ (Request'.op \in Reads /\ Result'.kind = "throw")
            => /\ FailedId' \in Stale'
               /\ Table'[FailedId'].callout
                    = (IF FailedId' \in DOMAIN Table
                       THEN Table[FailedId'].callout ELSE Null)
       /\ (/\ Request.op \in Reads
           /\ Result.kind = "throw"
           /\ Request'.op = "get"
           /\ Request'.args = <<FailedId>>)
            => /\ resolverCalls' = <<FailedId>>
               /\ Result'.kind = "return"
                    => /\ Result'.value # Null
                       /\ FailedId \notin Stale'
                       /\ Result'.value = Table'[FailedId].callout]_vars

\* get threw for a stale entry that had been resolved before: the entry is
\* stale and has the callout of the earlier resolution.
C33_Witness ==
    /\ cached
    /\ Request.op = "get"
    /\ Result.kind = "throw"
    /\ Request.args[1] \in Stale
    /\ Table[Request.args[1]].callout # Null
    /\ Table[Request.args[1]].sources = {"builtin", "custom"}
    /\ Table[Request.args[1]].callout[1].sources = {BuiltinSource}

\* The ids of a batch's `removed` list whose (id, key) pair is not in the
\* table: the id has no entry, or its entry lacks the key.
AbsentPairs(c, sourceKey, removed) ==
    {id \in SeqToSet(removed) :
        id \notin DOMAIN c \/ sourceKey \notin c[id].sources}

\* C34: on a built cache, an invalidateSource call that repeats the call
\* before it (same source, same batch) leaves the table, every sources set
\* and the invalidated set as the first call left them; and a removed name
\* whose (name, source) pair is not in the table keeps its entry, or its
\* absence, as it was, so that a batch of only such names changes nothing in
\* the table.
C34_DuplicateReportsAreHarmless ==
    [][/\ (cached /\ Request.op = "invalidateSource" /\ Request' = Request)
            => /\ Table' = Table
               /\ Stale' = Stale
       /\ (cached /\ Request'.op = "invalidateSource")
            => LET key == sourceToKey(Request'.args[1])
                   data == Request'.args[2]
                   absent == AbsentPairs(Table, key, data.removed)
               IN /\ \A id \in absent \ SeqToSet(data.added) :
                        /\ id \in DOMAIN Table' <=> id \in DOMAIN Table
                        /\ id \in DOMAIN Table => Table'[id] = Table[id]
                  /\ (absent = SeqToSet(data.removed) /\ data.added = <<>>)
                        => Table' = Table]_vars

\* A batch whose removed name is also added was applied twice to a built
\* table holding that name under another source, resolved: the entry has
\* both keys, its callout, and is stale.
C34_Witness ==
    /\ cached
    /\ Request.op = "invalidateSource"
    /\ Request.args[1] = CustomSource
    /\ Request.args[2].removed = <<"note">>
    /\ Request.args[2].added = <<"note">>
    /\ invalidationCount = 2
    /\ "note" \in DOMAIN Table
    /\ Table["note"].sources = {"builtin", "custom"}
    /\ Table["note"].callout # Null
    /\ "note" \in Stale

\* C35: invalidateSource processes the removed names, then the added names,
\* then the changed names: on a built cache a name listed both as removed
\* and as added ends the call with an entry that has the source's key and is
\* stale, and so does a name listed both as added and as changed.
C35_RemovedThenAddedThenChanged ==
    [][(cached /\ Request'.op = "invalidateSource")
            => LET key == sourceToKey(Request'.args[1])
                   data == Request'.args[2]
                   readded == SeqToSet(data.removed) \cap SeqToSet(data.added)
                   addedChanged == SeqToSet(data.added) \cap SeqToSet(data.changed)
               IN \A id \in readded \cup addedChanged :
                    /\ id \in DOMAIN Table'
                    /\ key \in Table'[id].sources
                    /\ id \in Stale']_vars

\* The first batch on a built cache listed 'note' as removed and as added
\* under the builtin source: the entry for 'note' has the key 'builtin' alone
\* and is stale, behind the entry for 'tip' in the table.
C35_Witness ==
    /\ cached
    /\ call.op = "invalidateSource"
    /\ call.args[1] = BuiltinSource
    /\ call.args[2].removed = <<"note">>
    /\ call.args[2].added = <<"note">>
    /\ call.args[2].changed = <<>>
    /\ invalidationCount = 1
    /\ MapKeys(cacheById) = <<"tip", "note">>
    /\ Table["note"].sources = {"builtin"}
    /\ Table["note"].callout = Null
    /\ Stale = {"note"}
    /\ Table["tip"].callout # Null

\* C36: invalidate(id) adds the entry of id to the invalidated set and does
\* nothing else: the table's ids, sources and callouts, the built flag, the
\* change counter and what a hasChanged closure answers are as before, no
\* registry is touched, no report is made, and with the cache unbuilt or no
\* entry for id the invalidated set is as before too.
C36_InvalidateOnlyMarksStale ==
    [][Request'.op = "invalidate"
            => LET id == Request'.args[1] IN
               /\ cached' = cached
               /\ Table' = Table
               /\ invalidationCount' = invalidationCount
               /\ countSnapshot' = countSnapshot
               /\ countSnapshot # Null => closureResult' = closureResult
               /\ UNCHANGED registryVars
               /\ reports' = <<>>
               /\ resolverCalls' = <<>>
               /\ Stale' = IF cached /\ id \in DOMAIN Table
                                 THEN Stale \cup {id}
                                 ELSE Stale]_vars

\* invalidate marked a resolved entry stale while a hasChanged closure taken
\* at the current count was outstanding: the closure still answers false.
C36_Witness ==
    /\ Request.op = "invalidate"
    /\ cached
    /\ Request.args[1] \in DOMAIN Table
    /\ Request.args[1] \in Stale
    /\ Table[Request.args[1]].callout # Null
    /\ countSnapshot # Null
    /\ invalidationCount > 0
    /\ ~closureResult

\* C8: decoding the key of a descriptor gives the descriptor back, so two
\* descriptors with one key are one descriptor.
C8_CodecRoundTrip ==
    /\ codecPc = "decoded" => codecOut = codecIn
    /\ codecPc \in {"encoded", "decoded"}
        => (codecKey[1] = codecKey[2] => codecIn[1] = codecIn[2])

\* A snippet and a theme whose sub-ids are keys of other sources went through
\* the codec.
C8_Witness ==
    /\ codecPc = "decoded"
    /\ codecIn = <<SnippetSource("theme:custom"), ThemeSource("snippet:a")>>
    /\ codecOut = codecIn

====
